---------------------------- MODULE Spec2Model ----------------------------
(***************************************************************************)
(* Model of the ForeignInlineList plugin of an admin-panel framework.      *)
(*                                                                         *)
(*   src/index.ts               server side: the plugin's activation hook  *)
(*                              (modifyResourceConfig) and its one HTTP    *)
(*                              handler (get_default_filters)              *)
(*   src/custom/InlineList.vue  client side: the inline list component     *)
(*                                                                         *)
(* Strings the code takes apart (resource ids, column names) are modelled  *)
(* as sequences of tokens: a base id is <<"A">>, the separator the code    *)
(* searches for is one token, and a template string is a concatenation.    *)
(* An absent value (undefined / null) of a sequence-valued field is <<>>.  *)
(***************************************************************************)
EXTENDS Integers, Sequences, FiniteSets, TLC

VARIABLES
    \* ---- server: plugin activation (src/index.ts) ----
    resources,      \* adminforth.config.resources: the resource registry
    pending,        \* plugin installations the host has not activated yet
    calls,          \* the modifyResourceConfig calls of the last activation
    boot,           \* "running" | "aborted" (a call threw) | "hung" (no return)
    typoOracle,     \* what the host's suggestIfTypo proposes for an unknown id
    \* ---- client: one mounted InlineList.vue component ----
    cfg,            \* props (meta, resource, record) and what the server holds
    mounted,        \* where onMounted stands
    listResource,   \* <<>> (null) or the list resource's columns
    loading,
    page, sort, filters, defaultFilters, checkboxes,
    rows, totalRows,
    bulkActionLoadingStates,
    listReqs,       \* get_resource_data requests in flight
    bulkTasks,      \* startBulkAction calls waiting (confirm dialog or response)
    nIssued,        \* get_resource_data requests issued so far
    nBulk,          \* startBulkAction calls made so far
    toasts,         \* kinds of toasts and alerts shown so far
    shown,          \* the request whose response was applied last
    handled         \* the last get_default_filters request the server handled

cfgVars == <<resources, pending, calls, boot, typoOracle>>

uiVars == <<cfg, mounted, listResource, loading, page, sort, filters,
            defaultFilters, checkboxes, rows, totalRows,
            bulkActionLoadingStates, listReqs, bulkTasks, nIssued, nBulk,
            toasts, shown, handled>>

vars == <<cfgVars, uiVars>>

-----------------------------------------------------------------------------
(* Bounds of the model *)

\* nesting depth of modifyResourceConfig calls that is explored
MaxDepth == 3
\* largest placeInGroup.position tried
MaxPosition == 3
\* most plugin installations on one resource
MaxPlugins == 2
\* pages the user can move to
MaxPage == 2
\* get_resource_data requests issued in one run
MaxListRequests == 2
\* startBulkAction calls in one run
MaxBulkCalls == 2

-----------------------------------------------------------------------------
(* Strings as token sequences *)

SEP == "_inline_list__from_"
END == "__"
VPREFIX == "foreignInlineList_"

NoId == <<>>

Range(s) == {s[i] : i \in 1..Len(s)}

\* `${foreign}_inline_list__from_${host}__`
IdOfNewCopy(foreignId, hostId) == foreignId \o <<SEP>> \o hostId \o <<END>>

\* `foreignInlineList_${foreign}`
VirtualColumnName(foreignId) == <<VPREFIX>> \o foreignId

\* id.includes('_inline_list__from_')
IncludesSep(id) == \E i \in 1..Len(id) : id[i] = SEP

\* id.split('_inline_list__from_')[0]
SplitFirst(id) ==
    IF IncludesSep(id)
    THEN LET k == CHOOSE i \in 1..Len(id) :
                     id[i] = SEP /\ \A j \in 1..(i-1) : id[j] # SEP
         IN SubSeq(id, 1, k-1)
    ELSE id

\* name.startsWith('foreignInlineList_')
StartsWithVPrefix(name) == Len(name) > 0 /\ name[1] = VPREFIX

-----------------------------------------------------------------------------
(* Array helpers with JavaScript's semantics (indices here are 1-based;    *)
(* 0 stands for "not found", JavaScript's -1 / undefined)                  *)

\* Array.prototype.splice(start, 0, x) for start >= 0
Splice(s, start, x) ==
    LET k == IF start > Len(s) THEN Len(s) ELSE start
    IN SubSeq(s, 1, k) \o <<x>> \o SubSeq(s, k+1, Len(s))

\* first 1-based index at which the sequence of booleans bs is TRUE, 0 when
\* none is (Array.prototype.find / findIndex over the tested elements)
FirstTrue(bs) ==
    IF \E i \in 1..Len(bs) : bs[i]
    THEN CHOOSE i \in 1..Len(bs) : bs[i] /\ \A j \in 1..(i-1) : ~bs[j]
    ELSE 0

-----------------------------------------------------------------------------
(* Resources, columns, field groups, plugin options *)

FieldGroupTypes ==
    <<"fieldGroups", "createFieldGroups", "editFieldGroups", "showFieldGroups">>

ShowOnly == [show |-> TRUE, list |-> FALSE, edit |-> FALSE,
             create |-> FALSE, filter |-> FALSE]
ShowEverywhere == [show |-> TRUE, list |-> TRUE, edit |-> TRUE,
                   create |-> TRUE, filter |-> TRUE]

\* an ordinary column of a resource; ref is foreignResource.resourceId or NoId
PlainColumn(n, ref) ==
    [name |-> <<n>>, virtual |-> FALSE, showIn |-> ShowEverywhere,
     foreignResource |-> ref, listResourceId |-> NoId]

\* the column the plugin injects; listResourceId is components.showRow.meta.foreignResourceId
NewColumn(foreignId, idOfNewCopy) ==
    [name |-> VirtualColumnName(foreignId), virtual |-> TRUE, showIn |-> ShowOnly,
     foreignResource |-> NoId, listResourceId |-> idOfNewCopy]

NoGroups == [fieldGroups |-> <<>>, createFieldGroups |-> <<>>,
             editFieldGroups |-> <<>>, showFieldGroups |-> <<>>]

\* options.placeInGroup absent: its name is falsy
NoPlace == [name |-> "", position |-> 0]

ActivationOrder == -10000000

NoErr == [kind |-> "none", id |-> NoId, didYouMean |-> NoId,
          position |-> 0, max |-> 0, group |-> ""]

\* the host framework's suggestIfTypo(names, id): a registered id it finds
\* similar to id, or nothing
suggestIfTypo(names, id) ==
    IF typoOracle \in Range(names) THEN typoOracle ELSE NoId

\* adminforth.config.resources.find(r => r.resourceId === foreignResourceId)
\* (mutation of FindResource: falls back to the first resource)
FindResourceOrFirst(reg, id) ==
    LET k == FirstTrue([i \in 1..Len(reg) |-> reg[i].resourceId = id])
    IN IF k = 0 THEN 1 ELSE k

FindResource(reg, id) ==
    FirstTrue([i \in 1..Len(reg) |-> reg[i].resourceId = id])

-----------------------------------------------------------------------------
(* modifyResourceConfig, lines 88-124: placing the virtual column *)

\* (mutation of InsertIntoGroup: the column goes before the neighbour, the
\* `+ 1` of line 114 left out)
InsertBeforeNeighbour(st, groupType, pig, newColumn) ==
    LET groups == st.res.options[groupType]
        t == FirstTrue([i \in 1..Len(groups) |-> groups[i].groupName = pig.name])
        cols == st.res.columns
        gcols == groups[t].columns
        beforeColumnName ==
            IF pig.position >= 1 /\ pig.position <= Len(gcols)
            THEN gcols[pig.position] ELSE NoId
        beforeColumnIndex ==
            FirstTrue([i \in 1..Len(cols) |-> cols[i].name = beforeColumnName]) - 1
        newCols == IF st.columnAdded THEN cols
                   ELSE Splice(cols, IF beforeColumnIndex < 0 THEN 0 ELSE beforeColumnIndex,
                               newColumn)
        newGroup == [groups[t] EXCEPT
                       !.columns = Splice(gcols, pig.position, newColumn.name)]
    IN [st EXCEPT !.res.columns = newCols,
                  !.res.options[groupType][t] = newGroup,
                  !.columnAdded = TRUE]

\* lines 108-119, for a target group whose position check passed
InsertIntoGroup(st, groupType, pig, newColumn) ==
    LET groups == st.res.options[groupType]
        t == FirstTrue([i \in 1..Len(groups) |-> groups[i].groupName = pig.name])
        cols == st.res.columns
        gcols == groups[t].columns
        \* targetGroup.columns[position - 1], undefined at position 0
        beforeColumnName ==
            IF pig.position >= 1 /\ pig.position <= Len(gcols)
            THEN gcols[pig.position] ELSE NoId
        \* findIndex: -1 when no column has that name
        beforeColumnIndex ==
            FirstTrue([i \in 1..Len(cols) |-> cols[i].name = beforeColumnName]) - 1
        newCols == IF st.columnAdded THEN cols
                   ELSE Splice(cols, beforeColumnIndex + 1, newColumn)
        newGroup == [groups[t] EXCEPT
                       !.columns = Splice(gcols, pig.position, newColumn.name)]
    IN [st EXCEPT !.res.columns = newCols,
                  !.res.options[groupType][t] = newGroup,
                  !.columnAdded = TRUE]

\* one iteration of `for (const groupType of fieldGroupTypes)`;
\* st = [res, columnAdded, err], and an iteration after a throw does nothing
GroupStep(st, groupType, pig, newColumn) ==
    LET groups == st.res.options[groupType]
        t == FirstTrue([i \in 1..Len(groups) |-> groups[i].groupName = pig.name])
    IN IF st.err.kind # "none" \/ t = 0 THEN st
       ELSE IF pig.position < 0 \/ pig.position > Len(groups[t].columns)
       THEN [st EXCEPT !.err = [NoErr EXCEPT !.kind = "invalidPosition",
                                             !.position = pig.position,
                                             !.max = Len(groups[t].columns),
                                             !.group = pig.name]]
       ELSE InsertIntoGroup(st, groupType, pig, newColumn)

RECURSIVE GroupLoop(_, _, _, _)
GroupLoop(st, i, pig, newColumn) ==
    IF i > Len(FieldGroupTypes) THEN st
    ELSE GroupLoop(GroupStep(st, FieldGroupTypes[i], pig, newColumn),
                   i + 1, pig, newColumn)

\* lines 88-124: [res, columnAdded, err]
PlaceColumn(res, pig, newColumn) ==
    IF pig.name # ""
    THEN GroupLoop([res |-> res, columnAdded |-> FALSE, err |-> NoErr],
                   1, pig, newColumn)
    ELSE [res |-> [res EXCEPT !.columns = Append(@, newColumn)],
          columnAdded |-> TRUE, err |-> NoErr]

-----------------------------------------------------------------------------
(* modifyResourceConfig, lines 126-145: the copy of the foreign resource *)

\* (mutation of RewireColumns: the copy keeps the foreign resource's references)
KeepReferences(cols, hostId) == cols

\* lines 130-138: a host that is itself a copy gets the back-reference
RewireColumns(cols, hostId) ==
    IF IncludesSep(hostId)
    THEN LET originalResourceIdPart == SplitFirst(hostId)
             k == FirstTrue([i \in 1..Len(cols) |->
                                cols[i].foreignResource = originalResourceIdPart])
         IN IF k = 0 THEN cols
            ELSE [cols EXCEPT ![k].foreignResource = hostId]
    ELSE cols

\* (mutation of DropVirtualColumns: the filter of line 141 left out)
KeepAllColumns(cols) == cols

\* line 141
DropVirtualColumns(cols) ==
    SelectSeq(cols, LAMBDA c : ~StartsWithVPrefix(c.name))

\* lines 127-144: clone({...foreignResource, plugins: []}), rewired, filtered, renamed
CopyOfForeignResource(foreign, hostId, idOfNewCopy) ==
    [foreign EXCEPT !.plugins = <<>>,
                    !.columns = DropVirtualColumns(RewireColumns(@, hostId)),
                    !.resourceId = idOfNewCopy]

\* line 160: Array.prototype.sort by activationOrder (stable insertion)
RECURSIVE SortByActivationOrder(_)
SortByActivationOrder(ps) ==
    IF Len(ps) <= 1 THEN ps
    ELSE LET rest == SortByActivationOrder(SubSeq(ps, 1, Len(ps) - 1))
             x == ps[Len(ps)]
             k == FirstTrue([i \in 1..Len(rest) |->
                                rest[i].activationOrder > x.activationOrder])
         IN IF k = 0 THEN Append(rest, x)
            ELSE SubSeq(rest, 1, k-1) \o <<x>> \o SubSeq(rest, k, Len(rest))

-----------------------------------------------------------------------------
(* modifyResourceConfig as a whole.  The result is                         *)
(*   [reg, status, log]: the registry as the call leaves it, "returned" |  *)
(*   "threw" | "unfinished" (the nesting went deeper than MaxDepth), and   *)
(*   one record per call made, the nested ones included.                   *)

CallRecord(h, opts, depth, foreign, regPre, regPost, status, err) ==
    [host |-> h, opts |-> opts, depth |-> depth, foreign |-> foreign,
     status |-> status, err |-> err,
     preIds |-> [i \in 1..Len(regPre) |-> regPre[i].resourceId],
     pre |-> regPre[h], post |-> regPost[h],
     nPre |-> Len(regPre), nPost |-> Len(regPost),
     \* the foreign resource before and after (the host when none was found),
     \* and what the call pushed to the registry (the host when it pushed nothing)
     foreignPre |-> regPre[IF foreign = 0 THEN h ELSE foreign],
     foreignPost |-> regPost[IF foreign = 0 THEN h ELSE foreign],
     pushed |-> Len(regPost) > Len(regPre),
     copy |-> regPost[IF Len(regPost) > Len(regPre) THEN Len(regPre) + 1 ELSE h]]

RECURSIVE modifyResourceConfig(_, _, _, _)
RECURSIVE ActivatePlugins(_, _, _, _, _)

\* lines 160-171: the sorted plugins of the copy, activated one after another;
\* a throw or a call that does not return ends the loop
ActivatePlugins(reg, c, plugins, i, depth) ==
    IF i > Len(plugins)
    THEN [reg |-> reg, status |-> "returned", err |-> NoErr, log |-> <<>>]
    ELSE LET r == modifyResourceConfig(reg, c, plugins[i], depth)
         IN IF r.status # "returned" THEN r
            ELSE LET rest == ActivatePlugins(r.reg, c, plugins, i + 1, depth)
                 IN [rest EXCEPT !.log = r.log \o @]

modifyResourceConfig(reg, h, opts, depth) ==
    IF depth > MaxDepth
    THEN [reg |-> reg, status |-> "unfinished", err |-> NoErr, log |-> <<>>]
    ELSE
    LET f == FindResource(reg, opts.foreignResourceId)
    IN IF f = 0
       THEN LET similar == suggestIfTypo([i \in 1..Len(reg) |-> reg[i].resourceId],
                                         opts.foreignResourceId)
                err == [NoErr EXCEPT !.kind = "notFound",
                                     !.id = opts.foreignResourceId,
                                     !.didYouMean = similar]
            IN [reg |-> reg, status |-> "threw", err |-> err,
                log |-> <<CallRecord(h, opts, depth, 0, reg, reg, "threw", err)>>]
       ELSE
       LET idOfNewCopy == IdOfNewCopy(reg[f].resourceId, reg[h].resourceId)
           newColumn == NewColumn(reg[f].resourceId, idOfNewCopy)
           placed == PlaceColumn(reg[h], opts.placeInGroup, newColumn)
           reg1 == [reg EXCEPT ![h] = placed.res]
       IN IF placed.err.kind # "none"
          THEN [reg |-> reg1, status |-> "threw", err |-> placed.err,
                log |-> <<CallRecord(h, opts, depth, f, reg, reg1, "threw", placed.err)>>]
          ELSE
          LET copy == CopyOfForeignResource(reg1[f], reg1[h].resourceId, idOfNewCopy)
              reg2 == Append(reg1, copy)
              c == Len(reg2)
              \* lines 152-157: new instances built from the foreign plugins' options
              reg3 == [reg2 EXCEPT ![c].plugins = reg2[f].plugins]
              nested == ActivatePlugins(reg3, c,
                                        SortByActivationOrder(reg3[c].plugins),
                                        1, depth + 1)
          \* an error of a nested call propagates through the await of line 163
          IN [reg |-> nested.reg, status |-> nested.status, err |-> nested.err,
              log |-> <<CallRecord(h, opts, depth, f, reg, nested.reg,
                                   nested.status, nested.err)>> \o nested.log]

-----------------------------------------------------------------------------
(* The get_default_filters handler, src/index.ts lines 34-47.              *)
(* fn is options.defaultFilters: "none" (not configured), "array" (a       *)
(* function that returns the array dfResult) or "notArray" (a function     *)
(* that returns something else); body.record is "" when the request body   *)
(* holds no record.                                                        *)

Payload(ok, error, fs) == [kind |-> "payload", ok |-> ok, error |-> error, filters |-> fs]
Thrown == [kind |-> "throw", ok |-> FALSE, error |-> "", filters |-> <<>>]

GetDefaultFiltersHandler(fn, dfResult, body) ==
    IF fn = "none"
    THEN Payload(FALSE, "No default filters function defined", <<>>)
    ELSE IF body.record = ""
    THEN Payload(FALSE, "No record provided in request body", <<>>)
    ELSE IF fn = "notArray"
    THEN Thrown
    ELSE Payload(TRUE, "", dfResult)

-----------------------------------------------------------------------------
(* InlineList.vue: computed values *)

\* listResourceRefColumn, lines 176-183: index of the column found, 0 for
\* null / undefined
ListResourceRefColumn ==
    IF listResource = <<>> \/ cfg.disableRef THEN 0
    ELSE FirstTrue([i \in 1..Len(listResource) |->
            IF listResource[i].polymorphic
            THEN cfg.resourceId \in Range(listResource[i].polymorphicResources)
            ELSE listResource[i].foreignResource = cfg.resourceId])

\* lines 226-231: the primary key value of props.record
PrimaryKeyValue ==
    IF cfg.pkForeign
    THEN (IF cfg.cell.wrapped THEN cfg.cell.pk ELSE "undefined")
    ELSE (IF cfg.cell.wrapped THEN "object" ELSE cfg.cell.pk)

RefCondition(k) ==
    [field |-> listResource[k].name, operator |-> "eq", value |-> PrimaryKeyValue]

\* a default or user-set filter
Filter(f) == [field |-> f, operator |-> "eq", value |-> "v"]

\* (mutation of EndFilters: user-set filters replace the default ones)
EndFiltersUserReplaces(df, fl) ==
    LET base == IF fl = <<>> THEN df ELSE fl
    IN IF listResource = <<>> THEN <<>>
       ELSE IF cfg.disableRef THEN base
       ELSE IF ListResourceRefColumn = 0 THEN <<>>
       ELSE base \o <<RefCondition(ListResourceRefColumn)>>

\* endFilters, lines 203-243, for default filters df and user-set filters fl
EndFilters(df, fl) ==
    IF listResource = <<>> THEN <<>>
    ELSE IF cfg.disableRef THEN df \o fl
    ELSE IF ListResourceRefColumn = 0 THEN <<>>
    ELSE df \o fl \o <<RefCondition(ListResourceRefColumn)>>

\* lines 218-223: the toast endFilters shows when it finds no reference column
EndFiltersToasts ==
    IF listResource # <<>> /\ ~cfg.disableRef /\ ListResourceRefColumn = 0
    THEN {"noRefColumn"} ELSE {}

-----------------------------------------------------------------------------
(* InlineList.vue: getList, lines 311-343 *)

NullRows == [kind |-> "null"]
NothingShown == [req |-> 0, page |-> 0, sort |-> <<>>, filters |-> <<>>]

\* the requests of k calls of getList made one after another in one turn of
\* the event loop, with page pg, sort st, user filters fl, default filters df
Requests(k, origin, pg, st, fl, df) ==
    {[id |-> nIssued + j,
      origin |-> IF j = 1 THEN origin ELSE "watch",
      page |-> pg, sort |-> st, filters |-> EndFilters(df, fl),
      df |-> df, uf |-> fl] : j \in 1..k}

\* lines 312-327: getList up to its await, called k times; more are toasts
\* shown in the same turn
GetList(k, origin, pg, st, fl, df, more) ==
    /\ rows' = NullRows
    /\ IF listResource = <<>>
       THEN /\ UNCHANGED <<listReqs, nIssued>>
            /\ toasts' = toasts \cup more
       ELSE /\ nIssued + k <= MaxListRequests
            /\ listReqs' = listReqs \cup Requests(k, origin, pg, st, fl, df)
            /\ nIssued' = nIssued + k
            /\ toasts' = toasts \cup more \cup EndFiltersToasts

\* lines 329-342: the response of request r arrives
ListResponse(r, outcome) ==
    /\ r \in listReqs
    /\ listReqs' = listReqs \ {r}
    /\ IF outcome = "error"
       THEN /\ rows' = [kind |-> "empty"]
            /\ totalRows' = 0
            /\ toasts' = toasts \cup {"listError"}
                           \cup (IF r.origin = "bulk" THEN {"success"} ELSE {})
       ELSE /\ rows' = [kind |-> "data"]
            /\ totalRows' = r.id
            /\ toasts' = toasts \cup (IF r.origin = "bulk" THEN {"success"} ELSE {})
    /\ shown' = [req |-> r.id, page |-> r.page, sort |-> r.sort, filters |-> r.filters]
    \* line 391: onMounted ends after its own getList
    /\ mounted' = IF r.origin = "mount" THEN "done" ELSE mounted
    /\ UNCHANGED <<cfg, listResource, loading, page, sort, filters, defaultFilters,
                   checkboxes, bulkActionLoadingStates, bulkTasks, nIssued, nBulk,
                   handled>>
    /\ UNCHANGED cfgVars

-----------------------------------------------------------------------------
(* InlineList.vue: onMounted, lines 360-392 *)

NothingHandled ==
    [seen |-> FALSE, fromComponent |-> FALSE, fn |-> "none", record |-> "",
     result |-> Payload(FALSE, "", <<>>), dfBefore |-> <<>>, dfAfter |-> <<>>,
     toasted |-> FALSE]

\* lines 360-372: up to the await of get_resource.  Setting the default sort
\* runs the sort watcher, whose getList returns early: listResource is null
Mount ==
    /\ mounted = "start"
    /\ loading' = TRUE
    /\ sort' = IF cfg.defaultSort # "" /\ sort = <<>> THEN <<cfg.defaultSort>> ELSE sort
    /\ rows' = NullRows
    /\ mounted' = "awaitResource"
    /\ UNCHANGED <<cfg, listResource, page, filters, defaultFilters, checkboxes,
                   totalRows, bulkActionLoadingStates, listReqs, bulkTasks,
                   nIssued, nBulk, toasts, shown, handled>>
    /\ UNCHANGED cfgVars

\* lines 366-384: get_resource answered, get_min_max_for_columns requested
GetResourceResponse ==
    /\ mounted = "awaitResource"
    /\ listResource' = cfg.listColumns
    /\ mounted' = "awaitMinMax"
    /\ UNCHANGED <<cfg, loading, page, sort, filters, defaultFilters, checkboxes,
                   rows, totalRows, bulkActionLoadingStates, listReqs, bulkTasks,
                   nIssued, nBulk, toasts, shown, handled>>
    /\ UNCHANGED cfgVars

\* lines 378-390: get_min_max_for_columns answered; then either the request
\* of getDefaultFilters (lines 346-352) or getList
MinMaxResponse ==
    /\ mounted = "awaitMinMax"
    /\ loading' = FALSE
    /\ IF cfg.defaultFiltersOn
       THEN /\ mounted' = "awaitDefaults"
            /\ UNCHANGED <<rows, listReqs, nIssued, toasts>>
       ELSE /\ mounted' = "awaitList"
            /\ GetList(1, "mount", page, sort, filters, defaultFilters, {})
    /\ UNCHANGED <<cfg, listResource, page, sort, filters, defaultFilters,
                   checkboxes, totalRows, bulkActionLoadingStates, bulkTasks,
                   nBulk, shown, handled>>
    /\ UNCHANGED cfgVars

\* the server handles the component's get_default_filters request and the
\* component takes the answer (lines 353-357), then calls getList (line 390).
\* What the client receives when the handler threw is the host's business:
\* an error body, or nothing at all ("null"), on which data.ok raises and
\* onMounted ends there.
DefaultFiltersResponse(thrownAs) ==
    /\ mounted = "awaitDefaults"
    /\ LET res == GetDefaultFiltersHandler(cfg.dfFn, cfg.dfResult, [record |-> cfg.record])
           crash == res.kind = "throw" /\ thrownAs = "null"
           ok == res.kind = "payload" /\ res.ok
           df == IF ok THEN res.filters ELSE defaultFilters
           toast == IF ok \/ crash THEN {} ELSE {"defaultFiltersError"}
       IN /\ defaultFilters' = df
          /\ handled' = [seen |-> TRUE, fromComponent |-> TRUE, fn |-> cfg.dfFn,
                         record |-> cfg.record, result |-> res,
                         dfBefore |-> defaultFilters, dfAfter |-> df,
                         toasted |-> toast # {}]
          /\ IF crash
             THEN /\ mounted' = "crashed"
                  /\ UNCHANGED <<rows, listReqs, nIssued, toasts>>
             ELSE /\ mounted' = "awaitList"
                  /\ GetList(1, "mount", page, sort, filters, df, toast)
    /\ UNCHANGED <<cfg, listResource, loading, page, sort, filters, checkboxes,
                   totalRows, bulkActionLoadingStates, bulkTasks, nBulk, shown>>
    /\ UNCHANGED cfgVars

\* some other client posts to the endpoint, with or without a record
DirectDefaultFiltersRequest(record) ==
    /\ mounted # "start"
    /\ handled' = [NothingHandled EXCEPT
                     !.seen = TRUE, !.fn = cfg.dfFn, !.record = record,
                     !.result = GetDefaultFiltersHandler(cfg.dfFn, cfg.dfResult,
                                                         [record |-> record])]
    /\ handled' # handled
    /\ UNCHANGED <<cfg, mounted, listResource, loading, page, sort, filters,
                   defaultFilters, checkboxes, rows, totalRows,
                   bulkActionLoadingStates, listReqs, bulkTasks, nIssued, nBulk,
                   toasts, shown>>
    /\ UNCHANGED cfgVars

-----------------------------------------------------------------------------
(* InlineList.vue: user events and the watchers they run, lines 256-268 *)

DialogOpen == \E t \in bulkTasks : t.stage = "confirm"

UserCanAct == mounted # "start" /\ ~DialogOpen

Sorts == {<<>>, <<"s1">>}
UserFilters == {<<>>, <<Filter("f1")>>}
Records == {"r1"}

\* @update:page, and the page watcher (lines 256-258)
SetPage(p) ==
    /\ UserCanAct
    /\ p # page
    /\ page' = p
    /\ GetList(1, "watch", p, sort, filters, defaultFilters, {})
    /\ UNCHANGED <<cfg, mounted, listResource, loading, sort, filters,
                   defaultFilters, checkboxes, totalRows, bulkActionLoadingStates,
                   bulkTasks, nBulk, shown, handled>>
    /\ UNCHANGED cfgVars

\* @update:sort, and the sort watcher (lines 260-262)
SetSort(s) ==
    /\ UserCanAct
    /\ sort' = s
    /\ GetList(1, "watch", page, s, filters, defaultFilters, {})
    /\ UNCHANGED <<cfg, mounted, listResource, loading, page, filters,
                   defaultFilters, checkboxes, totalRows, bulkActionLoadingStates,
                   bulkTasks, nBulk, shown, handled>>
    /\ UNCHANGED cfgVars

\* v-model:filters, and the filters watcher (lines 264-268); when it moves
\* the page back to 1 the page watcher runs too, and calls getList again
SetFilters(f) ==
    /\ UserCanAct
    /\ filters' = f
    /\ page' = 1
    /\ checkboxes' = {}
    /\ GetList(IF page # 1 THEN 2 ELSE 1, "watch", 1, sort, f, defaultFilters, {})
    /\ UNCHANGED <<cfg, mounted, listResource, loading, sort, defaultFilters,
                   totalRows, bulkActionLoadingStates, bulkTasks, nBulk, shown,
                   handled>>
    /\ UNCHANGED cfgVars

\* @update:checkboxes (line 122) and the "remove selection" button (line 21)
SetCheckboxes(c) ==
    /\ UserCanAct
    /\ rows.kind = "data" \/ c = {}
    /\ c # checkboxes
    /\ checkboxes' = c
    /\ UNCHANGED <<cfg, mounted, listResource, loading, page, sort, filters,
                   defaultFilters, rows, totalRows, bulkActionLoadingStates,
                   listReqs, bulkTasks, nIssued, nBulk, toasts, shown, handled>>
    /\ UNCHANGED cfgVars

\* @update:records (line 123) and the menu's updateList (line 110)
RefreshList ==
    /\ UserCanAct
    /\ GetList(1, "event", page, sort, filters, defaultFilters, {})
    /\ UNCHANGED <<cfg, mounted, listResource, loading, page, sort, filters,
                   defaultFilters, checkboxes, totalRows, bulkActionLoadingStates,
                   bulkTasks, nBulk, shown, handled>>
    /\ UNCHANGED cfgVars

-----------------------------------------------------------------------------
(* InlineList.vue: startBulkAction, lines 272-309 *)

\* listResource.options.bulkActions: id and whether it asks for confirmation
BulkActionIds == {"del", "pub"}
Confirms(a) == a = "del"

\* line 293
FlagAfterResponse(flags, a) == [flags EXCEPT ![a] = FALSE]

\* lines 273-292: up to the first await, the confirm dialog or the request
StartBulkAction(a) ==
    /\ UserCanAct
    /\ listResource # <<>>
    /\ checkboxes # {}
    /\ nBulk < MaxBulkCalls
    /\ nBulk' = nBulk + 1
    /\ IF Confirms(a)
       THEN /\ bulkTasks' = bulkTasks \cup
                   {[id |-> nBulk + 1, action |-> a, stage |-> "confirm", recordIds |-> {}]}
            /\ UNCHANGED bulkActionLoadingStates
       ELSE /\ bulkTasks' = bulkTasks \cup
                   {[id |-> nBulk + 1, action |-> a, stage |-> "request",
                     recordIds |-> checkboxes]}
            /\ bulkActionLoadingStates' = [bulkActionLoadingStates EXCEPT ![a] = TRUE]
    /\ UNCHANGED <<cfg, mounted, listResource, loading, page, sort, filters,
                   defaultFilters, checkboxes, rows, totalRows, listReqs, nIssued,
                   toasts, shown, handled>>
    /\ UNCHANGED cfgVars

\* lines 275-292: the confirm dialog is answered
ConfirmAnswer(t, confirmed) ==
    /\ t \in bulkTasks
    /\ t.stage = "confirm"
    /\ IF confirmed
       THEN /\ bulkTasks' = (bulkTasks \ {t}) \cup
                   {[t EXCEPT !.stage = "request", !.recordIds = checkboxes]}
            /\ bulkActionLoadingStates' = [bulkActionLoadingStates EXCEPT ![t.action] = TRUE]
       ELSE /\ bulkTasks' = bulkTasks \ {t}
            /\ UNCHANGED bulkActionLoadingStates
    /\ UNCHANGED <<cfg, mounted, listResource, loading, page, sort, filters,
                   defaultFilters, checkboxes, rows, totalRows, listReqs, nIssued,
                   nBulk, toasts, shown, handled>>
    /\ UNCHANGED cfgVars

\* lines 293-308: the answer of start_bulk_action arrives: a payload with
\* ok, a payload with error, or nothing ("null", for which data?.ok and
\* data?.error are both undefined)
BulkResponse(t, outcome) ==
    /\ t \in bulkTasks
    /\ t.stage = "request"
    /\ bulkTasks' = bulkTasks \ {t}
    /\ bulkActionLoadingStates' = FlagAfterResponse(bulkActionLoadingStates, t.action)
    /\ IF outcome = "ok"
       THEN /\ checkboxes' = {}
            /\ GetList(1, "bulk", page, sort, filters, defaultFilters, {})
       ELSE /\ toasts' = toasts \cup (IF outcome = "error" THEN {"bulkError"} ELSE {})
            /\ UNCHANGED <<checkboxes, rows, listReqs, nIssued>>
    /\ UNCHANGED <<cfg, mounted, listResource, loading, page, sort, filters,
                   defaultFilters, totalRows, nBulk, shown, handled>>
    /\ UNCHANGED cfgVars

-----------------------------------------------------------------------------
(* The mounted component *)

Column(n, ref) ==
    [name |-> n, foreignResource |-> ref, polymorphic |-> FALSE,
     polymorphicResources |-> <<>>]

\* what get_resource returns for the list resource: its columns, with the
\* reference to the host direct, polymorphic or missing
ListColumnChoices ==
    { <<Column("id", ""), Column("host_id", "host")>>,
      <<Column("id", ""), Column("other_id", "other")>>,
      <<Column("id", ""),
        [Column("target_id", "") EXCEPT !.polymorphic = TRUE,
                                        !.polymorphicResources = <<"other", "host">>]>> }

Config(disableRef, dfFn, dfResult, cols, pkForeign, defaultSort) ==
    [disableRef |-> disableRef,
     \* index.ts line 78
     defaultFiltersOn |-> dfFn # "none",
     dfFn |-> dfFn, dfResult |-> dfResult,
     defaultSort |-> defaultSort,
     resourceId |-> "host", record |-> "rec",
     listColumns |-> cols, pkForeign |-> pkForeign,
     \* the server sends a foreign-key value as an object {pk, label}
     cell |-> [pk |-> "k7", wrapped |-> pkForeign]]

DirectColumns == <<Column("id", ""), Column("host_id", "host")>>

\* the mounted configurations: every way the reference column and the
\* primary key can be set up, and every way default filters and the default
\* sort can be
Configs ==
    {Config(d, "array", <<Filter("d1")>>, cols, pk, "") :
        d \in BOOLEAN, cols \in ListColumnChoices, pk \in BOOLEAN}
    \cup
    {Config(FALSE, c[1], c[2], DirectColumns, FALSE, s) :
        c \in {<<"none", <<>>>>, <<"array", <<>>>>, <<"array", <<Filter("d1")>>>>,
               <<"notArray", <<>>>>},
        s \in {"", "s0"}}

InitUI ==
    /\ cfg \in Configs
    /\ mounted = "start"
    /\ listResource = <<>>
    /\ loading = TRUE
    /\ page = 1
    /\ sort = <<>>
    /\ filters = <<>>
    /\ defaultFilters = <<>>
    /\ checkboxes = {}
    /\ rows = NullRows
    /\ totalRows = 0
    /\ bulkActionLoadingStates = [a \in BulkActionIds |-> FALSE]
    /\ listReqs = {}
    /\ bulkTasks = {}
    /\ nIssued = 0
    /\ nBulk = 0
    /\ toasts = {}
    /\ shown = NothingShown
    /\ handled = NothingHandled

\* the server side at rest, for the client's specification
CfgIdle ==
    /\ resources = <<>>
    /\ pending = {}
    /\ calls = <<>>
    /\ boot = "running"
    /\ typoOracle = NoId

\* the component as constructed, on a server that is up
InitClient == InitUI /\ CfgIdle

NextUI ==
    \/ Mount
    \/ GetResourceResponse
    \/ MinMaxResponse
    \/ \E thrownAs \in {"null", "errorBody"} : DefaultFiltersResponse(thrownAs)
    \/ \E p \in 1..MaxPage : SetPage(p)
    \/ \E s \in Sorts : SetSort(s)
    \/ \E f \in UserFilters : SetFilters(f)
    \/ \E c \in SUBSET Records : SetCheckboxes(c)
    \/ RefreshList
    \/ \E a \in BulkActionIds : StartBulkAction(a)
    \/ \E t \in bulkTasks, b \in BOOLEAN : ConfirmAnswer(t, b)
    \/ \E t \in bulkTasks, o \in {"ok", "error", "null"} : BulkResponse(t, o)
    \/ \E r \in listReqs, o \in {"data", "error"} : ListResponse(r, o)

SpecUI == InitClient /\ [][NextUI]_vars

\* the list alone: mounting, page, sort and filter changes, record-update
\* events, and the responses
NextList ==
    \/ Mount
    \/ GetResourceResponse
    \/ MinMaxResponse
    \/ \E thrownAs \in {"null", "errorBody"} : DefaultFiltersResponse(thrownAs)
    \/ \E p \in 1..MaxPage : SetPage(p)
    \/ \E s \in Sorts : SetSort(s)
    \/ \E f \in UserFilters : SetFilters(f)
    \/ RefreshList
    \/ \E r \in listReqs, o \in {"data", "error"} : ListResponse(r, o)

SpecList == InitClient /\ [][NextList]_vars

\* bulk actions alone: mounting, selecting rows, startBulkAction and the
\* list requests it ends with
NextBulk ==
    \/ Mount
    \/ GetResourceResponse
    \/ MinMaxResponse
    \/ \E thrownAs \in {"null", "errorBody"} : DefaultFiltersResponse(thrownAs)
    \/ \E c \in SUBSET Records : SetCheckboxes(c)
    \/ \E a \in BulkActionIds : StartBulkAction(a)
    \/ \E t \in bulkTasks, b \in BOOLEAN : ConfirmAnswer(t, b)
    \/ \E t \in bulkTasks, o \in {"ok", "error", "null"} : BulkResponse(t, o)
    \/ \E r \in listReqs, o \in {"data", "error"} : ListResponse(r, o)

SpecBulk == InitClient /\ [][NextBulk]_vars

\* the get_default_filters endpoint with the component and other clients
NextHandler ==
    \/ Mount
    \/ GetResourceResponse
    \/ MinMaxResponse
    \/ \E thrownAs \in {"null", "errorBody"} : DefaultFiltersResponse(thrownAs)
    \/ \E record \in {"", "rec"} : DirectDefaultFiltersRequest(record)

SpecHandler == InitClient /\ [][NextHandler]_vars

-----------------------------------------------------------------------------
(* The configurations the plugin is activated on *)

BaseIds == {<<"A">>, <<"B">>, <<"C">>}
UnknownId == <<"X">>

BaseColumns(id) ==
    CASE id = <<"A">> -> <<PlainColumn("id", NoId), PlainColumn("a", <<"B">>),
                           PlainColumn("b", <<"C">>)>>
      [] id = <<"B">> -> <<PlainColumn("id", NoId), PlainColumn("a", <<"A">>),
                           PlainColumn("b", <<"C">>)>>
      [] OTHER        -> <<PlainColumn("id", NoId), PlainColumn("a", <<"A">>),
                           PlainColumn("b", <<"B">>)>>

Resource(id, options, plugins) ==
    [resourceId |-> id, columns |-> BaseColumns(id),
     options |-> options, plugins |-> plugins]

Plugin(foreignId, pig) ==
    [foreignResourceId |-> foreignId, placeInGroup |-> pig,
     activationOrder |-> ActivationOrder]

Group(n, cols) == [groupName |-> n, columns |-> cols]

\* what one of the four field-group options may hold
GroupChoices ==
    { <<>>,
      <<Group("G", <<<<"a">>, <<"b">>>>)>>,
      <<Group("G", <<<<"a">>>>)>>,
      <<Group("H", <<<<"a">>>>), Group("G", <<<<"id">>, <<"b">>>>)>> }

GroupOptions ==
    [fieldGroups : GroupChoices, createFieldGroups : GroupChoices,
     editFieldGroups : GroupChoices, showFieldGroups : GroupChoices]

Places ==
    {NoPlace, [name |-> "Z", position |-> 0]}
    \cup {[name |-> "G", position |-> p] : p \in (0-1)..MaxPosition}

\* plugin lists without placement: at most MaxPlugins installations, no two
\* with the same foreignResourceId (instanceUniqueRepresentation, lines 25-27)
RECURSIVE PluginLists(_)
PluginLists(n) ==
    IF n = 0 THEN {<<>>}
    ELSE LET shorter == PluginLists(n - 1)
         IN shorter \cup
            {Append(ps, Plugin(f, NoPlace)) :
                ps \in {q \in shorter : Len(q) = n - 1},
                f \in BaseIds \cup {UnknownId}}

DistinctForeign(ps) ==
    \A i, j \in 1..Len(ps) :
        ps[i].foreignResourceId = ps[j].foreignResourceId => i = j

\* family 1: resource A with field groups and a placed installation
InitPlacement ==
    /\ typoOracle = NoId
    /\ \E go \in GroupOptions, pig \in Places, f \in {<<"B">>, UnknownId},
          second \in {<<>>, <<Plugin(<<"C">>, [name |-> "G", position |-> 1])>>},
          pc \in {<<>>, <<Plugin(<<"A">>, NoPlace)>>} :
         resources = << Resource(<<"A">>, go, <<Plugin(f, pig)>> \o second),
                        Resource(<<"B">>, NoGroups, <<>>),
                        Resource(<<"C">>, NoGroups, pc) >>

\* family 2: installations without placement in every topology, cycles included
InitTopology ==
    /\ typoOracle \in {NoId, <<"A">>}
    /\ \E pa \in {ps \in PluginLists(MaxPlugins) : DistinctForeign(ps)},
          pb, pc \in PluginLists(1) :
         resources = << Resource(<<"A">>, NoGroups, pa),
                        Resource(<<"B">>, NoGroups, pb),
                        Resource(<<"C">>, NoGroups, pc) >>

\* the client side at rest, for the server's specification
UiIdle ==
    /\ cfg = [disableRef |-> FALSE]
    /\ mounted = "start"
    /\ listResource = <<>>
    /\ loading = TRUE
    /\ page = 1
    /\ sort = <<>>
    /\ filters = <<>>
    /\ defaultFilters = <<>>
    /\ checkboxes = {}
    /\ rows = NullRows
    /\ totalRows = 0
    /\ bulkActionLoadingStates = <<>>
    /\ listReqs = {}
    /\ bulkTasks = {}
    /\ nIssued = 0
    /\ nBulk = 0
    /\ toasts = {}
    /\ shown = NothingShown
    /\ handled = NothingHandled

InitConfig ==
    /\ InitPlacement \/ InitTopology
    /\ pending = {<<h, i>> \in (1..Len(resources)) \X (1..MaxPlugins) :
                      i <= Len(resources[h].plugins)}
    /\ calls = <<>>
    /\ boot = "running"
    /\ UiIdle

\* the host framework activates one installed plugin: it calls the plugin's
\* modifyResourceConfig with the resource the plugin is installed on
ActivatePlugin(h, i) ==
    /\ boot = "running"
    /\ <<h, i>> \in pending
    /\ LET r == modifyResourceConfig(resources, h, resources[h].plugins[i], 1)
       IN /\ resources' = r.reg
          /\ calls' = r.log
          /\ boot' = CASE r.status = "returned" -> "running"
                       [] r.status = "threw" -> "aborted"
                       [] OTHER -> "hung"
    /\ pending' = pending \ {<<h, i>>}
    /\ UNCHANGED typoOracle
    /\ UNCHANGED uiVars

NextConfig ==
    \E h \in 1..3, i \in 1..MaxPlugins : ActivatePlugin(h, i)

SpecConfig == InitConfig /\ [][NextConfig]_vars

-----------------------------------------------------------------------------
(* Properties of modifyResourceConfig, stated over the recorded calls *)

\* the columns of the first group called n in option groupType of res, and
\* whether there is one
HasGroup(res, groupType, n) ==
    \E i \in 1..Len(res.options[groupType]) : res.options[groupType][i].groupName = n

GroupColumns(res, groupType, n) ==
    LET gs == res.options[groupType]
    IN gs[FirstTrue([i \in 1..Len(gs) |-> gs[i].groupName = n])].columns

TypesWithGroup(res, n) ==
    {i \in 1..Len(FieldGroupTypes) : HasGroup(res, FieldGroupTypes[i], n)}

PositionValidIn(res, groupType, pig) ==
    pig.position >= 0 /\ pig.position <= Len(GroupColumns(res, groupType, pig.name))

Occurrences(cols, n) == {i \in 1..Len(cols) : cols[i].name = n}

KnownId(c) == \E j \in 1..Len(c.preIds) : c.preIds[j] = c.opts.foreignResourceId

\* C2: every call resolves options.foreignResourceId to the registered resource
\* with that id; when no registered resource has it, the call throws an error
\* that names the id and carries the host's suggestion exactly when the host
\* finds a similar id, and it leaves the host resource and the registry as
\* they were: no virtual column, no copy.
C2_ForeignResolvedOrThrows ==
    \A k \in 1..Len(calls) :
        LET c == calls[k]
            id == c.opts.foreignResourceId
        IN /\ KnownId(c) =>
                /\ c.foreign # 0
                /\ c.preIds[c.foreign] = id
                /\ \A j \in 1..(c.foreign - 1) : c.preIds[j] # id
           /\ ~KnownId(c) =>
                /\ c.foreign = 0
                /\ c.status = "threw"
                /\ c.err.kind = "notFound"
                /\ c.err.id = id
                /\ c.err.didYouMean = suggestIfTypo(c.preIds, id)
                /\ c.post = c.pre
                /\ Occurrences(c.post.columns, VirtualColumnName(id)) = {}
                /\ c.nPost = c.nPre

\* a call for an unknown id threw with a suggestion, another call (nested in
\* a successful lookup) registered a copy before it
C2_Witness ==
    \E k \in 1..Len(calls) :
        /\ ~KnownId(calls[k])
        /\ calls[k].status = "threw"
        /\ calls[k].err.didYouMean # NoId
        /\ calls[k].nPre > 3

VirtualIndex(c) ==
    CHOOSE i \in 1..Len(c.post.columns) :
        c.post.columns[i].name = VirtualColumnName(c.opts.foreignResourceId)

PlacementCase(c) ==
    LET pig == c.opts.placeInGroup
    IN /\ c.status = "returned"
       /\ pig.name # ""
       /\ TypesWithGroup(c.pre, pig.name) # {}
       /\ \A t \in TypesWithGroup(c.pre, pig.name) :
              PositionValidIn(c.pre, FieldGroupTypes[t], pig)

NameAtPosition(c) ==
    LET pig == c.opts.placeInGroup
    IN \A t \in TypesWithGroup(c.pre, pig.name) :
          GroupColumns(c.post, FieldGroupTypes[t], pig.name)[pig.position + 1]
              = VirtualColumnName(c.opts.foreignResourceId)

InsertedOnce(c) ==
    LET vn == VirtualColumnName(c.opts.foreignResourceId)
    IN /\ Cardinality(Occurrences(c.post.columns, vn)) = 1
       /\ Len(c.post.columns) = Len(c.pre.columns) + 1
       /\ \A i \in 1..Len(c.pre.columns) :
             c.pre.columns[i] =
                c.post.columns[IF i < VirtualIndex(c) THEN i ELSE i + 1]

\* next to its neighbour in some group called name: after the entry at
\* position-1, or, at position 0, before the group's first column
NextToGroupNeighbour(c) ==
    LET pig == c.opts.placeInGroup
        v == VirtualIndex(c)
    IN \E t \in TypesWithGroup(c.pre, pig.name) :
          LET g == GroupColumns(c.pre, FieldGroupTypes[t], pig.name)
          IN IF pig.position > 0
             THEN v > 1 /\ c.post.columns[v - 1].name = g[pig.position]
             ELSE Len(g) > 0 =>
                    /\ v < Len(c.post.columns)
                    /\ c.post.columns[v + 1].name = g[1]

\* C4: with a position valid in every group called placeInGroup.name, a call
\* that returns leaves the virtual column's name at index position of each of
\* those groups, and the column inserted once into the host's columns next to
\* its group neighbour (after the entry at position-1; at position 0 before
\* the group's first column).
C4_PlacedNextToNeighbour ==
    \A k \in 1..Len(calls) :
        PlacementCase(calls[k]) =>
            /\ NameAtPosition(calls[k])
            /\ InsertedOnce(calls[k])
            /\ NextToGroupNeighbour(calls[k])

\* C4 as amended: with a position valid in every group called
\* placeInGroup.name, a call that returns leaves the virtual column's name at
\* index position of each of those groups, and the column inserted once into
\* the host's columns: right after the host column named by the entry at
\* position-1 of the first group found (in the order fieldGroups,
\* createFieldGroups, editFieldGroups, showFieldGroups), and at the very front
\* of the host's columns when there is no such column (position 0, or an
\* entry that names no column of the host).
C4_PlacedAfterNeighbourOrAtFront ==
    \A k \in 1..Len(calls) :
        PlacementCase(calls[k]) =>
            LET c == calls[k]
                pig == c.opts.placeInGroup
                first == CHOOSE t \in TypesWithGroup(c.pre, pig.name) :
                            \A u \in TypesWithGroup(c.pre, pig.name) : t <= u
                g == GroupColumns(c.pre, FieldGroupTypes[first], pig.name)
            IN /\ NameAtPosition(c)
               /\ InsertedOnce(c)
               /\ IF pig.position > 0
                     /\ Occurrences(c.pre.columns, g[pig.position]) # {}
                  THEN /\ VirtualIndex(c) > 1
                       /\ c.post.columns[VirtualIndex(c) - 1].name = g[pig.position]
                  ELSE VirtualIndex(c) = 1

\* a call placed the column at position 0 of a group that more than one
\* field-group option holds and whose first column is not the host's first
\* column
C4_Witness ==
    \E k \in 1..Len(calls) :
        /\ PlacementCase(calls[k])
        /\ calls[k].opts.placeInGroup.position = 0
        /\ Cardinality(TypesWithGroup(calls[k].pre, "G")) > 1
        /\ ~NextToGroupNeighbour(calls[k])

\* C5: when placeInGroup.position is negative or greater than the column
\* count of some group called placeInGroup.name, the call throws and has no
\* effect: the host resource (its columns, its groups' column lists) and the
\* registry are as before the call.
C5_InvalidPositionNoEffect ==
    \A k \in 1..Len(calls) :
        LET c == calls[k]
            pig == c.opts.placeInGroup
        IN (/\ KnownId(c)
            /\ pig.name # ""
            /\ \E t \in TypesWithGroup(c.pre, pig.name) :
                  ~PositionValidIn(c.pre, FieldGroupTypes[t], pig))
           => /\ c.status = "threw"
              /\ c.err.kind = "invalidPosition"
              /\ c.post = c.pre
              /\ c.nPost = c.nPre

\* what the code guarantees in that case: it throws and registers no copy
InvalidPositionThrows ==
    \A k \in 1..Len(calls) :
        LET c == calls[k]
            pig == c.opts.placeInGroup
        IN (/\ KnownId(c)
            /\ pig.name # ""
            /\ \E t \in TypesWithGroup(c.pre, pig.name) :
                  ~PositionValidIn(c.pre, FieldGroupTypes[t], pig))
           => /\ c.status = "threw"
              /\ c.err.kind = "invalidPosition"
              /\ c.nPost = c.nPre

-----------------------------------------------------------------------------
(* Properties of the inline list's requests *)

\* the columns of the list resource that refer to the host resource
ReferenceColumns ==
    {i \in 1..Len(cfg.listColumns) :
        \/ cfg.listColumns[i].foreignResource = cfg.resourceId
        \/ cfg.resourceId \in Range(cfg.listColumns[i].polymorphicResources)}

ScopingCondition(i) ==
    [field |-> cfg.listColumns[i].name, operator |-> "eq", value |-> cfg.cell.pk]

\* a request is built from the state its getList call finds
BuiltFromCurrentState ==
    \A r \in listReqs' \ listReqs :
        /\ r.df = defaultFilters'
        /\ r.uf = filters'
        /\ r.page = page'
        /\ r.sort = sort'

\* C6: every get_resource_data request carries the current default filters
\* followed by the current user-set filters and, unless
\* disableForeignListResourceRefColumn is set, always also the condition
\* {field: reference column, operator: eq, value: primary key of the host
\* record}.
C6_DefaultsThenUserThenScope ==
    \A r \in listReqs :
        IF cfg.disableRef
        THEN r.filters = r.df \o r.uf
        ELSE \E i \in ReferenceColumns :
                r.filters = r.df \o r.uf \o <<ScopingCondition(i)>>

\* C6 as amended: every request is built from the current page, sort, default
\* and user-set filters; it carries the default filters followed by the
\* user-set filters, followed - unless disableForeignListResourceRefColumn is
\* set - by the scoping condition on the first column of the list resource
\* that refers to the host resource; but when the option is not set and the
\* list resource has no such column, an error toast is shown and the request
\* carries no filters at all.
C6_MergedUnlessNoReferenceColumn ==
    /\ [](\A r \in listReqs :
            IF cfg.disableRef
            THEN r.filters = r.df \o r.uf
            ELSE IF ReferenceColumns # {}
            THEN LET i == CHOOSE j \in ReferenceColumns :
                                \A m \in ReferenceColumns : j <= m
                 IN r.filters = r.df \o r.uf \o <<ScopingCondition(i)>>
            ELSE r.filters = <<>> /\ "noRefColumn" \in toasts)
    /\ [][BuiltFromCurrentState]_vars

\* a request in flight carries a default filter, a user-set filter and the
\* scoping condition, for a host whose primary key is itself a foreign key
C6_Witness ==
    \E r \in listReqs :
        /\ r.df # <<>>
        /\ r.uf # <<>>
        /\ ~cfg.disableRef
        /\ cfg.pkForeign
        /\ Len(r.filters) = 3

\* C7: the get_default_filters handler answers every failure - no
\* defaultFilters function, no record in the body, a defaultFilters result
\* that is no array - with a payload {ok: false, error}, and {ok: true,
\* filters} only for an array; the component shows a toast for every answer
\* that is not ok and leaves its default filters as they were.
C7_FailuresArePayloads ==
    handled.seen =>
        /\ handled.result.kind = "payload"
        /\ (handled.fn # "array" \/ handled.record = "") =>
              (~handled.result.ok /\ handled.result.error # "")
        /\ (handled.fn = "array" /\ handled.record # "") =>
              handled.result = Payload(TRUE, "", cfg.dfResult)
        /\ (handled.fromComponent /\ ~handled.result.ok) =>
              (handled.toasted /\ handled.dfAfter = handled.dfBefore)

\* what the handler does: a payload in every case but one, the result that
\* is no array, on which it throws
HandlerThrowsOnNonArray ==
    handled.seen =>
        /\ handled.result.kind = "throw" <=>
              (handled.fn = "notArray" /\ handled.record # "")
        /\ (handled.result.kind = "payload" /\ handled.result.ok) <=>
              (handled.fn = "array" /\ handled.record # "")
        /\ (handled.result.kind = "payload" /\ ~handled.result.ok) =>
              handled.result.error # ""
        /\ (handled.fromComponent /\ handled.result.kind = "payload"
              /\ ~handled.result.ok) =>
              (handled.toasted /\ handled.dfAfter = handled.dfBefore)

\* C8: at every moment at most one get_resource_data request is in flight.
C8_OneListRequestInFlight ==
    Cardinality(listReqs) <= 1

\* C9: once every issued list request has been answered, what is displayed
\* is the response to the most recently issued request, the one built from
\* the current page, sort and filters.
C9_LastRequestWins ==
    (nIssued > 0 /\ listReqs = {}) =>
        /\ shown.page = page
        /\ shown.sort = sort
        /\ shown.filters = EndFilters(defaultFilters, filters)

InFlightBulk(a) == {t \in bulkTasks : t.stage = "request" /\ t.action = a}

\* C10: for every bulk action id the loading flag is true exactly while a
\* start_bulk_action request for that id is in flight.
C10_FlagExactlyWhileInFlight ==
    \A a \in BulkActionIds :
        bulkActionLoadingStates[a] <=> (InFlightBulk(a) # {})

\* what the flag does guarantee: it is true only while a request for its id
\* is in flight, a response clears it, and a declined confirmation leaves it
FlagOnlyWhileInFlight ==
    /\ [](\A a \in BulkActionIds :
            bulkActionLoadingStates[a] => InFlightBulk(a) # {})
    /\ [][\A t \in bulkTasks :
            /\ (t.stage = "request" /\ t \notin bulkTasks')
                  => ~bulkActionLoadingStates'[t.action]
            /\ (t.stage = "confirm" /\ ~\E u \in bulkTasks' : u.id = t.id)
                  => UNCHANGED bulkActionLoadingStates]_vars

-----------------------------------------------------------------------------
(* Properties of the copy of the foreign resource *)

\* the resource a host stands for: the part of a copy's id before the first
\* separator, the id itself for a resource that is no copy
OriginalHostId(hostId) ==
    IF IncludesSep(hostId) THEN SplitFirst(hostId) ELSE hostId

\* the references of a resource's columns, by column name
References(res) ==
    {<<res.columns[i].name, res.columns[i].foreignResource>> :
        i \in {j \in 1..Len(res.columns) : res.columns[j].foreignResource # NoId}}

RefersTo(res, id) ==
    \E i \in 1..Len(res.columns) : res.columns[i].foreignResource = id

\* C11: after a successful modifyResourceConfig the registry holds a copy of
\* the foreign resource with id <foreignResourceId>_inline_list__from_<host
\* id>__; if the original foreign resource has a column that refers to the
\* original host resource, the copy has a column that refers to the host the
\* plugin is installed on, also when that host is itself a copy; the original
\* foreign resource keeps its id and its columns' references.
C11_CopyRefersToItsHost ==
    \A k \in 1..Len(calls) :
        calls[k].status = "returned" =>
            LET call == calls[k]
                hostId == call.pre.resourceId
            IN /\ call.pushed
               /\ call.copy.resourceId =
                      IdOfNewCopy(call.opts.foreignResourceId, hostId)
               /\ \E i \in 1..Len(resources) :
                      resources[i].resourceId = call.copy.resourceId
               /\ RefersTo(call.foreignPre, OriginalHostId(hostId))
                      => RefersTo(call.copy, hostId)
               /\ call.foreignPost.resourceId = call.opts.foreignResourceId
               /\ call.foreignPre.resourceId = call.opts.foreignResourceId
               /\ References(call.foreignPost) = References(call.foreignPre)

\* a successful call on a host that is itself a copy, whose foreign resource
\* refers to the resource the host was copied from
C11_Witness ==
    \E k \in 1..Len(calls) :
        /\ calls[k].status = "returned"
        /\ calls[k].depth > 1
        /\ IncludesSep(calls[k].pre.resourceId)
        /\ RefersTo(calls[k].foreignPre, OriginalHostId(calls[k].pre.resourceId))
        /\ ~RefersTo(calls[k].foreignPre, calls[k].pre.resourceId)
        /\ RefersTo(calls[k].copy, calls[k].pre.resourceId)

-----------------------------------------------------------------------------
(* Termination of modifyResourceConfig *)

\* the configured resources: the copies are pushed behind them
Configured == {i \in 1..Len(resources) : ~IncludesSep(resources[i].resourceId)}

\* resource i has an installation whose foreign resource is resource j
Lists(i, j) ==
    \E p \in 1..Len(resources[i].plugins) :
        resources[i].plugins[p].foreignResourceId = resources[j].resourceId

\* the configured resources that the inline lists lead to from resource i, in
\* at most n steps
RECURSIVE ListedFrom(_, _)
ListedFrom(i, n) ==
    IF n = 0 THEN {}
    ELSE LET direct == {j \in Configured : Lists(i, j)}
         IN direct \cup UNION {ListedFrom(j, n - 1) : j \in direct}

OnCycle(i) == i \in ListedFrom(i, Cardinality(Configured))

\* the calls that are still running when call k is made
Enclosing(k) ==
    {j \in 1..(k - 1) :
        /\ calls[j].depth < calls[k].depth
        /\ \A m \in (j + 1)..k : calls[m].depth > calls[j].depth}

\* call k is made for an installation, on a copy of a resource, while a call
\* for the same installation on that resource or a copy of it is still
\* running.  The copies of one resource differ in id and back-reference only,
\* so call k goes on to make the calls its enclosing call made, itself again
\* included.
Reentered(k) ==
    \E j \in Enclosing(k) :
        /\ calls[j].opts = calls[k].opts
        /\ OriginalHostId(calls[j].pre.resourceId)
              = OriginalHostId(calls[k].pre.resourceId)

\* C12: modifyResourceConfig terminates and registers finitely many copies
\* for every finite set of resources and installations, cycles of inline-list
\* references included: activating the foreign resource's plugins on the copy
\* never leads back into the installation that is being activated.
C12_Terminates ==
    \A k \in 1..Len(calls) : ~Reentered(k)

\* without a cycle every call ends, at a nesting no deeper than the number of
\* configured resources, and the calls made register at most one copy each
AcyclicTerminates ==
    (\A i \in Configured : ~OnCycle(i)) =>
        /\ boot # "hung"
        /\ \A k \in 1..Len(calls) :
              /\ calls[k].status \in {"returned", "threw"}
              /\ calls[k].depth <= Cardinality(Configured)
              /\ calls[k].nPost - calls[k].nPre <= Len(calls) - k + 1

\* a call is re-entered only for a foreign resource on a cycle of inline-list
\* references, and each re-entry is on a new copy with a longer id and has
\* pushed one more copy to the registry
ReentryOnlyOnCycle ==
    \A k \in 1..Len(calls) :
        Reentered(k) =>
            /\ \E i \in Configured :
                  /\ resources[i].resourceId = calls[k].opts.foreignResourceId
                  /\ OnCycle(i)
            /\ calls[k].status = "unfinished"
            /\ \A j \in Enclosing(k) :
                  /\ Len(calls[k].pre.resourceId) > Len(calls[j].pre.resourceId)
                  /\ calls[k].nPre > calls[j].nPre

=============================================================================
